---- MODULE Spec2Model ----
(***************************************************************************)
(* Model of skabelon.py: a command line front end of the Jinja2 engine.    *)
(* One run of the script is a sequential process: parse_cmd_line consumes  *)
(* the command line option by option, main loads the dispatch extension,   *)
(* parses the --dispatch-opt tokens, calls dispatcher.dispatch and renders *)
(* one output file per yielded instruction; the __main__ block turns the   *)
(* exception that ended main into the exit code of the process.            *)
(***************************************************************************)
EXTENDS Integers, Sequences, FiniteSets, TLC

VARIABLES argv, pc, argi, ns, stdio, executed, dispatch_args, opti, kwargs,
          yielded, fs, writes, log, exc, exitcode

vars == <<argv, pc, argi, ns, stdio, executed, dispatch_args, opti, kwargs,
          yielded, fs, writes, log, exc, exitcode>>

----------------------------------------------------------------------------
(* Bounds of the model *)

MaxArgs == 4        \* options on the command line
MaxInstr == 2       \* instructions the dispatch generator yields
MaxTokLen == 3      \* characters of a --dispatch-opt token (SpecOpt)
MaxOpts == 2        \* --dispatch-opt occurrences (SpecOpt)

----------------------------------------------------------------------------
(* Values *)

Null == "null"
Absent == "absent"

\* Strings that the code splits are sequences of one-character strings.
Alphabet == {"a", ":"}

RECURSIVE StringsUpTo(_)
StringsUpTo(n) ==
    IF n = 0 THEN {<<>>}
    ELSE LET shorter == StringsUpTo(n - 1)
         IN shorter \cup {Append(s, c) : s \in {t \in shorter : Len(t) = n - 1},
                                        c \in Alphabet}

\* The file system the path validators look at.
Paths == [ tmpl_dir    |-> [exists |-> TRUE,  is_dir |-> TRUE,  suffixes |-> <<>>],
           notes_txt   |-> [exists |-> TRUE,  is_dir |-> FALSE, suffixes |-> <<".txt">>],
           nowhere     |-> [exists |-> FALSE, is_dir |-> FALSE, suffixes |-> <<>>],
           dispatch_py |-> [exists |-> TRUE,  is_dir |-> FALSE, suffixes |-> <<".py">>],
           gone_py     |-> [exists |-> FALSE, is_dir |-> FALSE, suffixes |-> <<".py">>] ]

TemplatePathArgs == {"tmpl_dir", "notes_txt", "nowhere"}
DispatchPathArgs == {"dispatch_py", "notes_txt", "gone_py"}

\* Tokens given to --dispatch-opt on the command lines of Spec:
\* a:a, a:: and aa (no separator).
ArgTokens == { <<"a", ":", "a">>, <<"a", ":", ":">>, <<"a", "a">> }

ArgItems ==
    {[flag |-> f, path |-> Null, token |-> <<>>] : f \in {"--version", "--help"}}
    \cup {[flag |-> "--templates", path |-> p, token |-> <<>>] : p \in TemplatePathArgs}
    \cup {[flag |-> "--dispatch", path |-> p, token |-> <<>>] : p \in DispatchPathArgs}
    \cup {[flag |-> "--dispatch-opt", path |-> Null, token |-> t] : t \in ArgTokens}

RECURSIVE SeqsUpTo(_, _)
SeqsUpTo(S, n) ==
    IF n = 0 THEN {<<>>}
    ELSE LET shorter == SeqsUpTo(S, n - 1)
         IN shorter \cup {Append(s, x) : s \in {t \in shorter : Len(t) = n - 1},
                                        x \in S}

\* The templates of the template directory, and what the generator can yield.
TemplateDir == {"t.tmpl", "bad.tmpl"}
TemplateNames == {"t.tmpl", "bad.tmpl", "missing.tmpl"}
OutPaths == {"out1", "out2"}
Contexts == {"World"}
Instructions == [tname : TemplateNames, context : Contexts, output_file : OutPaths]

NoExc == [type |-> "none", code |-> 0, at |-> "none"]
Raise(type, code, at) == [type |-> type, code |-> code, at |-> at]

----------------------------------------------------------------------------
(* Pure functions of the script *)

Contains(s, c) == \E i \in 1..Len(s) : s[i] = c

\* str.split(sep): scan the characters, closing a part at every separator.
RECURSIVE SplitFrom(_, _, _, _, _)
SplitFrom(s, sep, i, cur, acc) ==
    IF i > Len(s) THEN Append(acc, cur)
    ELSE IF s[i] = sep THEN SplitFrom(s, sep, i + 1, <<>>, Append(acc, cur))
    ELSE SplitFrom(s, sep, i + 1, Append(cur, s[i]), acc)

Split(s, sep) == SplitFrom(s, sep, 1, <<>>, <<>>)

\* sep.join(parts)
RECURSIVE Join(_, _)
Join(parts, sep) ==
    IF Len(parts) = 0 THEN <<>>
    ELSE IF Len(parts) = 1 THEN parts[1]
    ELSE parts[1] \o <<sep>> \o Join(Tail(parts), sep)

\* A mutant of ParseDispatchOpt: the value is the second part only.
ParseDispatchOptSecondPart(input_str) ==
    IF ~Contains(input_str, ":")
    THEN [raised |-> TRUE, key |-> <<>>, value |-> <<>>]
    ELSE LET parts == Split(input_str, ":")
         IN [raised |-> FALSE, key |-> parts[1], value |-> parts[2]]

\* A mutant of ParseDispatchOpt: a token without separator is a key with an
\* empty value.
ParseDispatchOptLenient(input_str) ==
    LET parts == Split(input_str, ":")
    IN IF Len(parts) > 2
       THEN [raised |-> FALSE, key |-> parts[1],
             value |-> Join(Tail(parts), ":")]
       ELSE IF Len(parts) = 2
       THEN [raised |-> FALSE, key |-> parts[1], value |-> parts[2]]
       ELSE [raised |-> FALSE, key |-> parts[1], value |-> <<>>]

\* The body of the loop over args.dispatch_opts, up to the dictionary store.
ParseDispatchOpt(input_str) ==
    IF ~Contains(input_str, ":")
    THEN [raised |-> TRUE, key |-> <<>>, value |-> <<>>]
    ELSE LET parts == Split(input_str, ":")
         IN IF Len(parts) > 2
            THEN [raised |-> FALSE, key |-> parts[1],
                  value |-> Join(Tail(parts), ":")]
            ELSE IF Len(parts) = 2
            THEN [raised |-> FALSE, key |-> parts[1], value |-> parts[2]]
            ELSE [raised |-> TRUE, key |-> <<>>, value |-> <<>>]

\* A Python dict is a sequence of entries in insertion order.
HasKey(d, k) == \E i \in 1..Len(d) : d[i].key = k

\* A mutant of SetItem: an existing key keeps its value (dict.setdefault).
SetItemKeepFirst(d, k, v) ==
    IF HasKey(d, k) THEN d ELSE Append(d, [key |-> k, value |-> v])

\* dispatch_args[key] = value
SetItem(d, k, v) ==
    IF HasKey(d, k)
    THEN [i \in 1..Len(d) |-> IF d[i].key = k THEN [key |-> k, value |-> v]
                                               ELSE d[i]]
    ELSE Append(d, [key |-> k, value |-> v])

\* directory_path: the path exists and is a directory.
directory_path(input_string) ==
    Paths[input_string].exists /\ Paths[input_string].is_dir

\* dispatch_file: the path exists and '.py' is among its suffixes.
dispatch_file(input_string) ==
    /\ Paths[input_string].exists
    /\ \E i \in 1..Len(Paths[input_string].suffixes) :
           Paths[input_string].suffixes[i] = ".py"

\* A mutant of TakeAction: --version only records that it was seen.
TakeActionVersionDeferred(item, n) ==
    IF item.flag = "--version"
    THEN [ns |-> n, exit |-> FALSE, code |-> 0, out |-> Null]
    ELSE IF item.flag = "--help"
    THEN [ns |-> n, exit |-> TRUE, code |-> 0, out |-> "help"]
    ELSE IF item.flag = "--templates"
    THEN IF directory_path(item.path)
         THEN [ns |-> [n EXCEPT !.templates = item.path],
               exit |-> FALSE, code |-> 0, out |-> Null]
         ELSE [ns |-> n, exit |-> TRUE, code |-> 2, out |-> "usage error"]
    ELSE IF item.flag = "--dispatch"
    THEN IF dispatch_file(item.path)
         THEN [ns |-> [n EXCEPT !.dispatch = item.path],
               exit |-> FALSE, code |-> 0, out |-> Null]
         ELSE [ns |-> n, exit |-> TRUE, code |-> 2, out |-> "usage error"]
    ELSE [ns |-> [n EXCEPT !.dispatch_opts = Append(@, item.token)],
          exit |-> FALSE, code |-> 0, out |-> Null]

\* What the argument parser does with one option of the command line, in the
\* order of the command line: the version and help actions print and exit 0, a type
\* function that raises ArgumentTypeError ends in parser.error (exit 2),
\* --dispatch-opt appends the raw token.
TakeAction(item, n) ==
    IF item.flag = "--version"
    THEN [ns |-> n, exit |-> TRUE, code |-> 0, out |-> "version"]
    ELSE IF item.flag = "--help"
    THEN [ns |-> n, exit |-> TRUE, code |-> 0, out |-> "help"]
    ELSE IF item.flag = "--templates"
    THEN IF directory_path(item.path)
         THEN [ns |-> [n EXCEPT !.templates = item.path],
               exit |-> FALSE, code |-> 0, out |-> Null]
         ELSE [ns |-> n, exit |-> TRUE, code |-> 2, out |-> "usage error"]
    ELSE IF item.flag = "--dispatch"
    THEN IF dispatch_file(item.path)
         THEN [ns |-> [n EXCEPT !.dispatch = item.path],
               exit |-> FALSE, code |-> 0, out |-> Null]
         ELSE [ns |-> n, exit |-> TRUE, code |-> 2, out |-> "usage error"]
    ELSE [ns |-> [n EXCEPT !.dispatch_opts = Append(@, item.token)],
          exit |-> FALSE, code |-> 0, out |-> Null]

\* required=True: the option did not occur on the command line.
RequiredMissing(n) == n.templates = Null \/ n.dispatch = Null

\* A mutant of TemplateFound: a missing template is not detected.
TemplateFoundAlways(tname) == tname \in TemplateNames

\* env.get_template(tname) finds the template in the template directory.
TemplateFound(tname) == tname \in TemplateDir

\* template.render(**context) raises for the broken template.
RenderRaises(tname, context) == tname = "bad.tmpl"

RenderText(tname, context) == <<"Hello", context>>

\* The __main__ block: the exit code for the exception that ended main().
\* An exception that no clause catches ends the interpreter with code 1.
ExitCode(e) ==
    IF e.type = "SystemExit" THEN 0
    ELSE IF e.type = "KeyboardInterrupt" THEN 1
    ELSE 1

\* What the __main__ block prints.
HandlerOutput(e) ==
    IF e.type = "SystemExit" THEN <<>>
    ELSE IF e.type = "KeyboardInterrupt" THEN <<"interrupted">>
    ELSE <<"traceback">>

\* A mutant of AfterWrite: the file is not closed before the loop goes on.
AfterWriteNoClose == "next_instr"

\* Where control goes when the with block is left after a write: the file is
\* closed.
AfterWrite == "close"

\* A mutant of LoopBack: return 0 is inside the body of the loop.
LoopBackReturn == "return"

\* Where control goes at the end of the body of the for loop.
LoopBack == "next_instr"

----------------------------------------------------------------------------
(* The run *)

EmptyNamespace == [templates |-> Null, dispatch |-> Null, dispatch_opts |-> <<>>]

\* The output files before the run: out1 exists, out2 does not.
InitialFiles == [p \in OutPaths |-> IF p = "out1" THEN <<"old">> ELSE <<Absent>>]

NotCalled == [called |-> FALSE, args |-> <<>>]

Init ==
    /\ argv \in SeqsUpTo(ArgItems, MaxArgs)
    /\ pc = "parse_args"
    /\ argi = 1
    /\ ns = EmptyNamespace
    /\ stdio = <<>>
    /\ executed = FALSE
    /\ dispatch_args = <<>>
    /\ opti = 1
    /\ kwargs = NotCalled
    /\ yielded = <<>>
    /\ fs = InitialFiles
    /\ writes = <<>>
    /\ log = <<>>
    /\ exc = NoExc
    /\ exitcode = -1

\* An exception leaves main(): control is in the __main__ block.
Raised(e, at) ==
    /\ exc' = Raise(e.type, e.code, at)
    /\ pc' = "handler"

\* What code of the extension can raise: an Exception, or SystemExit through
\* sys.exit(code).
ExtensionRaises ==
    { [type |-> "Exception", code |-> 0],
      [type |-> "SystemExit", code |-> 0],
      [type |-> "SystemExit", code |-> 1] }

Error == [type |-> "Exception", code |-> 0]

\* parser.parse_args(): the next option of the command line.
ParseArg ==
    /\ pc = "parse_args"
    /\ argi <= Len(argv)
    /\ LET r == TakeAction(argv[argi], ns)
       IN IF r.exit
          THEN /\ Raised([type |-> "SystemExit", code |-> r.code], "parse_args")
               /\ stdio' = Append(stdio, r.out)
               /\ UNCHANGED <<ns, argi>>
          ELSE /\ ns' = r.ns
               /\ argi' = argi + 1
               /\ UNCHANGED <<pc, exc, stdio>>
    /\ UNCHANGED <<argv, executed, dispatch_args, opti, kwargs, yielded, fs,
                   writes, log, exitcode>>

\* parser.parse_args(): the command line is consumed; a required option that
\* did not occur is an error, otherwise parse_cmd_line returns.
ParseEnd ==
    /\ pc = "parse_args"
    /\ argi > Len(argv)
    /\ IF RequiredMissing(ns)
       THEN /\ Raised([type |-> "SystemExit", code |-> 2], "parse_args")
            /\ stdio' = Append(stdio, "usage error")
       ELSE /\ pc' = "load"
            /\ UNCHANGED <<exc, stdio>>
    /\ UNCHANGED <<argv, argi, ns, executed, dispatch_args, opti, kwargs,
                   yielded, fs, writes, log, exitcode>>

\* spec.loader.exec_module(dispatcher): the code of the extension runs.
LoadExtension ==
    /\ pc = "load"
    /\ executed' = TRUE
    /\ \/ pc' = "parse_opts" /\ UNCHANGED exc
       \/ \E e \in ExtensionRaises : Raised(e, "load")
    /\ UNCHANGED <<argv, argi, ns, stdio, dispatch_args, opti, kwargs, yielded,
                   fs, writes, log, exitcode>>

\* One iteration of the loop over args.dispatch_opts, or its end.
ParseOpts ==
    /\ pc = "parse_opts"
    /\ IF opti <= Len(ns.dispatch_opts)
       THEN LET r == ParseDispatchOpt(ns.dispatch_opts[opti])
            IN IF r.raised
               THEN /\ Raised(Error, "parse_opts")
                    /\ UNCHANGED <<dispatch_args, opti>>
               ELSE /\ dispatch_args' = SetItem(dispatch_args, r.key, r.value)
                    /\ opti' = opti + 1
                    /\ UNCHANGED <<pc, exc>>
       ELSE /\ pc' = "call_dispatch"
            /\ UNCHANGED <<dispatch_args, opti, exc>>
    /\ UNCHANGED <<argv, argi, ns, stdio, executed, kwargs, yielded, fs,
                   writes, log, exitcode>>

\* dispatcher.dispatch(**dispatch_args): the attribute lookup or the call can
\* fail, otherwise the for loop has its iterator.
CallDispatch ==
    /\ pc = "call_dispatch"
    /\ \/ /\ kwargs' = [called |-> TRUE, args |-> dispatch_args]
          /\ \/ pc' = "next_instr" /\ UNCHANGED exc
             \/ \E e \in ExtensionRaises : Raised(e, "call_dispatch")
       \/ /\ Raised(Error, "resolve_dispatch")
          /\ UNCHANGED kwargs
    /\ UNCHANGED <<argv, argi, ns, stdio, executed, dispatch_args, opti,
                   yielded, fs, writes, log, exitcode>>

\* The for statement asks the iterator for the next instruction: the
\* extension yields one, is exhausted, or raises.
NextInstr ==
    /\ pc = "next_instr"
    /\ \/ /\ Len(yielded) < MaxInstr
          /\ \E instr \in Instructions : yielded' = Append(yielded, instr)
          /\ log' = Append(log, <<"yield", Len(yielded) + 1>>)
          /\ pc' = "get_template"
          /\ UNCHANGED exc
       \/ /\ pc' = "return"
          /\ log' = Append(log, <<"stop", Len(yielded)>>)
          /\ UNCHANGED <<yielded, exc>>
       \/ /\ \E e \in ExtensionRaises : Raised(e, "next_instr")
          /\ UNCHANGED <<yielded, log>>
    /\ UNCHANGED <<argv, argi, ns, stdio, executed, dispatch_args, opti, kwargs,
                   fs, writes, exitcode>>

\* The instruction the body of the for loop works on.
Current == yielded[Len(yielded)]
K == Len(yielded)

\* template = env.get_template(tname)
GetTemplate ==
    /\ pc = "get_template"
    /\ IF TemplateFound(Current.tname)
       THEN /\ pc' = "open"
            /\ UNCHANGED <<exc, log>>
       ELSE /\ Raised(Error, "get_template")
            /\ log' = Append(log, <<"not found", K>>)
    /\ UNCHANGED <<argv, argi, ns, stdio, executed, dispatch_args, opti, kwargs,
                   yielded, fs, writes, exitcode>>

\* open(output_file, 'w'): the file is created or truncated, or the call
\* fails and leaves the file system alone.
OpenOutput ==
    /\ pc = "open"
    /\ \/ /\ fs' = [fs EXCEPT ![Current.output_file] = <<>>]
          /\ log' = Append(log, <<"open", K>>)
          /\ pc' = "render"
          /\ UNCHANGED exc
       \/ /\ Raised(Error, "open")
          /\ log' = Append(log, <<"open failed", K>>)
          /\ UNCHANGED fs
    /\ UNCHANGED <<argv, argi, ns, stdio, executed, dispatch_args, opti, kwargs,
                   yielded, writes, exitcode>>

\* template.render(**context), inside the with block: an exception closes
\* the file on the way out.
Render ==
    /\ pc = "render"
    /\ IF RenderRaises(Current.tname, Current.context)
       THEN /\ Raised(Error, "render")
            /\ log' = log \o << <<"render failed", K>>, <<"close", K>> >>
       ELSE /\ pc' = "write"
            /\ log' = Append(log, <<"render", K>>)
            /\ UNCHANGED exc
    /\ UNCHANGED <<argv, argi, ns, stdio, executed, dispatch_args, opti, kwargs,
                   yielded, fs, writes, exitcode>>

\* fout.write(text): the text is in the file, or the write fails.
Write ==
    /\ pc = "write"
    /\ \/ /\ fs' = [fs EXCEPT ![Current.output_file] =
                         RenderText(Current.tname, Current.context)]
          /\ writes' = Append(writes,
                 [path |-> Current.output_file,
                  text |-> RenderText(Current.tname, Current.context)])
          /\ log' = Append(log, <<"write", K>>)
          /\ pc' = AfterWrite
          /\ UNCHANGED exc
       \/ /\ Raised(Error, "write")
          /\ log' = log \o << <<"write failed", K>>, <<"close", K>> >>
          /\ UNCHANGED <<fs, writes>>
    /\ UNCHANGED <<argv, argi, ns, stdio, executed, dispatch_args, opti, kwargs,
                   yielded, exitcode>>

\* The with block ends: the file is closed and the loop goes on.
Close ==
    /\ pc = "close"
    /\ log' = Append(log, <<"close", K>>)
    /\ pc' = LoopBack
    /\ UNCHANGED <<argv, argi, ns, stdio, executed, dispatch_args, opti, kwargs,
                   yielded, fs, writes, exc, exitcode>>

\* return 0, and sys.exit(main()) raises SystemExit(0).
Return ==
    /\ pc = "return"
    /\ Raised([type |-> "SystemExit", code |-> 0], "return")
    /\ UNCHANGED <<argv, argi, ns, stdio, executed, dispatch_args, opti, kwargs,
                   yielded, fs, writes, log, exitcode>>

\* The user interrupts the run after parse_cmd_line has returned:
\* KeyboardInterrupt is raised at the current statement of main; a with block
\* that is open closes its file.
MainSteps == {"load", "parse_opts", "call_dispatch", "next_instr",
              "get_template", "open", "render", "write", "close", "return"}

Interrupt ==
    /\ pc \in MainSteps
    /\ Raised([type |-> "KeyboardInterrupt", code |-> 0], pc)
    /\ log' = IF pc \in {"render", "write", "close"}
              THEN Append(log, <<"close", K>>)
              ELSE log
    /\ UNCHANGED <<argv, argi, ns, stdio, executed, dispatch_args, opti, kwargs,
                   yielded, fs, writes, exitcode>>

\* The except clauses of the __main__ block end the process.
Handler ==
    /\ pc = "handler"
    /\ exitcode' = ExitCode(exc)
    /\ stdio' = stdio \o HandlerOutput(exc)
    /\ pc' = "done"
    /\ UNCHANGED <<argv, argi, ns, executed, dispatch_args, opti, kwargs,
                   yielded, fs, writes, log, exc>>

Next ==
    \/ ParseArg
    \/ ParseEnd
    \/ LoadExtension
    \/ ParseOpts
    \/ CallDispatch
    \/ NextInstr
    \/ GetTemplate
    \/ OpenOutput
    \/ Render
    \/ Write
    \/ Close
    \/ Return
    \/ Interrupt
    \/ Handler

Spec == Init /\ [][Next]_vars

TypeOK ==
    /\ pc \in MainSteps \cup {"parse_args", "handler", "done"}
    /\ exitcode \in {-1, 0, 1}
    /\ Len(yielded) <= MaxInstr

----------------------------------------------------------------------------
(* The parsing of the --dispatch-opt tokens on its own: main has parsed a   *)
(* valid command line with any tokens and has loaded the extension.         *)

OptItem(t) == [flag |-> "--dispatch-opt", path |-> Null, token |-> t]

InitOpt ==
    /\ \E opts \in SeqsUpTo(StringsUpTo(MaxTokLen), MaxOpts) :
          /\ argv = << [flag |-> "--templates", path |-> "tmpl_dir", token |-> <<>>],
                       [flag |-> "--dispatch", path |-> "dispatch_py", token |-> <<>>] >>
                    \o [i \in 1..Len(opts) |-> OptItem(opts[i])]
          /\ ns = [templates |-> "tmpl_dir", dispatch |-> "dispatch_py",
                   dispatch_opts |-> opts]
    /\ pc = "parse_opts"
    /\ argi = Len(argv) + 1
    /\ stdio = <<>>
    /\ executed = TRUE
    /\ dispatch_args = <<>>
    /\ opti = 1
    /\ kwargs = NotCalled
    /\ yielded = <<>>
    /\ fs = InitialFiles
    /\ writes = <<>>
    /\ log = <<>>
    /\ exc = NoExc
    /\ exitcode = -1

NextOpt ==
    \/ ParseOpts
    \/ CallDispatch

SpecOpt == InitOpt /\ [][NextOpt]_vars

----------------------------------------------------------------------------
(* Properties *)

Done == pc = "done"

\* The text of a token before and after its first ':'.
FirstSep(t) == CHOOSE i \in 1..Len(t) : t[i] = ":" /\ \A j \in 1..(i - 1) : t[j] # ":"
KeyText(t) == SubSeq(t, 1, FirstSep(t) - 1)
ValueText(t) == SubSeq(t, FirstSep(t) + 1, Len(t))
Separators(t) == Cardinality({i \in 1..Len(t) : t[i] = ":"})

Entries(d, k) == {i \in 1..Len(d) : d[i].key = k}

\* The outputs of the first n yielded instructions, in yield order.
Outputs(n) ==
    [i \in 1..n |-> [path |-> yielded[i].output_file,
                     text |-> RenderText(yielded[i].tname, yielded[i].context)]]

Untouched == writes = <<>> /\ fs = InitialFiles

ItemInvalid(item) ==
    \/ item.flag = "--templates" /\ ~directory_path(item.path)
    \/ item.flag = "--dispatch" /\ ~dispatch_file(item.path)

HasVersion == \E i \in 1..Len(argv) : argv[i].flag = "--version"

\* --version occurs, and before it neither --help nor an option with an
\* invalid value.
VersionBeforeInvalid ==
    \E i \in 1..Len(argv) :
        /\ argv[i].flag = "--version"
        /\ \A j \in 1..(i - 1) : ~ItemInvalid(argv[j]) /\ argv[j].flag # "--help"

VersionRun == stdio = <<"version">> /\ exitcode = 0 /\ ~executed /\ Untouched

BadOptOnCommandLine ==
    \E i \in 1..Len(argv) :
        argv[i].flag = "--dispatch-opt" /\ ~Contains(argv[i].token, ":")

\* The generator was exhausted.
Stopped == Len(log) > 0 /\ log[Len(log)][1] = "stop"

\* C1: a run whose argument validation fails (parser.error was called) ends
\* with a non-zero exit code and never executes the dispatch extension.
C1_ValidationFailureExitsNonZero ==
    (Done /\ exc.at = "parse_args" /\ stdio = <<"usage error">>)
        => (exitcode # 0 /\ ~executed)

\* C2: when instruction k >= 2 names a template that does not exist, the run
\* ends with exactly the outputs of instructions 1..k-1 written in yield
\* order, the output file of instruction k never opened, and a non-zero exit
\* code.
C2_MissingTemplateKeepsEarlierOutputs ==
    (Done /\ K >= 2 /\ Current.tname \notin TemplateDir)
        => /\ writes = Outputs(K - 1)
           /\ \A i \in 1..Len(log) : log[i] # <<"open", K>>
           /\ exitcode # 0

C2_Witness ==
    /\ Done /\ K = 2 /\ Current.tname = "missing.tmpl"
    /\ exc.at = "get_template" /\ Len(writes) = 1 /\ exitcode = 1

\* C3: after a token with at least one ':' is parsed, DispatchOptions maps the
\* text before the first ':' to the whole text after the first ':', whether
\* the token has one ':' or more.
C3_SplitsAtFirstSeparator ==
    opti > 1 =>
        LET t == ns.dispatch_opts[opti - 1]
        IN Contains(t, ":") =>
              /\ Entries(dispatch_args, KeyText(t)) # {}
              /\ \A i \in Entries(dispatch_args, KeyText(t)) :
                     dispatch_args[i].value = ValueText(t)

C3_Witness ==
    /\ opti > 1
    /\ Separators(ns.dispatch_opts[opti - 1]) >= 2
    /\ \E i \in 1..Len(dispatch_args) : Contains(dispatch_args[i].value, ":")

\* C4: a command line with a --dispatch-opt token without ':' at any position
\* never lets the dispatch entry point be called nor an output be written,
\* and the run that gets to parse the tokens ends with the configuration
\* error and exit code 1.
C4_TokenWithoutSeparatorIsFatal ==
    BadOptOnCommandLine =>
        /\ ~kwargs.called
        /\ Untouched
        /\ pc \notin {"next_instr", "get_template", "open", "render", "write",
                       "close", "return"}
        /\ (Done /\ exc.at \notin {"parse_args", "load"}
                 /\ exc.type # "KeyboardInterrupt")
              => (exc = Raise("Exception", 0, "parse_opts") /\ exitcode = 1)

C4_Witness ==
    /\ Done /\ exc = Raise("Exception", 0, "parse_opts") /\ exitcode = 1
    /\ Len(ns.dispatch_opts) = 2
    /\ Contains(ns.dispatch_opts[1], ":") /\ ~Contains(ns.dispatch_opts[2], ":")

\* C5: a run whose N >= 0 instructions all succeed performs exactly N
\* render-and-write steps, one per yielded instruction in yield order, and
\* exits with code 0; main does not return before the sequence is exhausted.
C5_OneRenderPerYield ==
    (Done /\ (Stopped \/ exc.at = "return") /\ exc.type # "KeyboardInterrupt")
        => /\ Stopped
           /\ exc = Raise("SystemExit", 0, "return")
           /\ writes = Outputs(K)
           /\ (K = 0 => fs = InitialFiles)
           /\ exitcode = 0

C5_Witness ==
    /\ Done /\ Stopped /\ K >= 2 /\ Len(writes) = K /\ exitcode = 0
    /\ yielded[1].output_file # yielded[2].output_file

\* C6 as stated: a command line that contains --version anywhere prints the
\* version, exits 0, does not execute the extension and writes nothing.
C6_VersionAnywhere ==
    (Done /\ HasVersion) => VersionRun

\* C6 as amended: the same, for a command line on which --version is not
\* preceded by --help or by an option with an invalid value.
C6_VersionBeforeInvalid ==
    (Done /\ VersionBeforeInvalid) => VersionRun

C6_Witness ==
    /\ Done /\ VersionRun
    /\ argv[1].flag = "--dispatch-opt"
    /\ argv[2].flag = "--version"
    /\ Len(argv) >= 3 /\ ItemInvalid(argv[3])

\* What C7 calls a failure: an exception of a step of main, a user
\* interrupt, or the extension ending the run through sys.exit(code # 0).
Failure(e) ==
    \/ e.type \in {"Exception", "KeyboardInterrupt"}
    \/ /\ e.type = "SystemExit" /\ e.code # 0
       /\ e.at \in {"load", "call_dispatch", "next_instr"}

\* C7: any failure of a step after argument parsing, and any user
\* interrupt, ends the process with a non-zero exit code.
C7_FailureExitsNonZero ==
    (Done /\ Failure(exc)) => exitcode # 0

\* C8: the output path of an instruction is opened (created or truncated)
\* only after its template has rendered, so a render error on instruction k
\* leaves output path k unopened.
C8_OpenAfterRender ==
    \A i \in 1..Len(log) :
        /\ log[i][1] = "open" =>
               \E j \in 1..(i - 1) : log[j] = <<"render", log[i][2]>>
        /\ log[i][1] = "render failed" =>
               \A j \in 1..(i - 1) : log[j] # <<"open", log[i][2]>>

\* C9: instruction k+1 is requested only right after the output of
\* instruction k was written and closed, and after a failure on an
\* instruction the generator is not resumed.
FailureEvents == {"not found", "open failed", "render failed", "write failed"}

C9_IncrementalConsumption ==
    \A i \in 1..Len(log) :
        /\ (log[i][1] = "yield" /\ log[i][2] > 1) =>
               /\ i > 2
               /\ log[i - 1] = <<"close", log[i][2] - 1>>
               /\ log[i - 2] = <<"write", log[i][2] - 1>>
        /\ log[i][1] \in FailureEvents =>
               \A j \in (i + 1)..Len(log) : log[j][1] \notin {"yield", "stop"}

C9_Witness ==
    /\ Done /\ K = 2 /\ exc.at = "render"
    /\ log[Len(log) - 1] = <<"render failed", 2>>

\* C10: tokens that share a key leave exactly one entry for it in the
\* DispatchOptions passed to dispatch, with the value of the last such token;
\* there are as many entries as distinct keys.
C10_LastDuplicateWins ==
    kwargs.called =>
        LET opts == ns.dispatch_opts
            keys == {KeyText(opts[i]) : i \in 1..Len(opts)}
        IN /\ Len(kwargs.args) = Cardinality(keys)
           /\ \A i \in 1..Len(opts) :
                  /\ Cardinality(Entries(kwargs.args, KeyText(opts[i]))) = 1
                  /\ (\A j \in (i + 1)..Len(opts) : KeyText(opts[j]) # KeyText(opts[i]))
                        => \A e \in Entries(kwargs.args, KeyText(opts[i])) :
                               kwargs.args[e].value = ValueText(opts[i])

C10_Witness ==
    /\ kwargs.called
    /\ Len(ns.dispatch_opts) >= 2
    /\ KeyText(ns.dispatch_opts[1]) = KeyText(ns.dispatch_opts[2])
    /\ ValueText(ns.dispatch_opts[1]) # ValueText(ns.dispatch_opts[2])
    /\ Len(kwargs.args) = 1

====
